---- MODULE Spec2Model ----
(***************************************************************************)
(* Model of NLP/biobert_pubmed_extractor.py: the chunking loop and entity  *)
(* aggregation of ner_document, canonical_label, find_keywords and the     *)
(* per-record loop of analyze_records.  Python strings are sequences of    *)
(* one-character strings; offsets are 0-based as in the source.            *)
(***************************************************************************)
EXTENDS Integers, Sequences, FiniteSets, TLC

\* ------------------------------------------------------------------ bounds
MaxLen == 5
MaxChars == 3
MaxSpans == 3
MaxRecords == 2
MaxLabelLen == 3
MaxFrags == 2

\* ------------------------------------------------ Python string primitives
\* an optional value: None, or Some(v) holding v
None == <<>>
Some(v) == <<v>>
Val(o) == o[1]

LowerAlpha == <<"a", "b", "c", "d", "e", "f", "g", "h", "i", "j", "k", "l", "m", "n", "o", "p", "q", "r", "s", "t", "u", "v", "w", "x", "y", "z">>
UpperAlpha == <<"A", "B", "C", "D", "E", "F", "G", "H", "I", "J", "K", "L", "M", "N", "O", "P", "Q", "R", "S", "T", "U", "V", "W", "X", "Y", "Z">>

Min(a, b) == IF a <= b THEN a ELSE b
MaxOf(S) == CHOOSE x \in S : \A y \in S : y <= x
MinOf(S) == CHOOSE x \in S : \A y \in S : x <= y

IsUpperCh(c) == \E j \in 1..26 : UpperAlpha[j] = c
IsLowerCh(c) == \E j \in 1..26 : LowerAlpha[j] = c

\* ord(c) for the characters that occur in the model
Ord(c) ==
    IF IsUpperCh(c) THEN 64 + (CHOOSE j \in 1..26 : UpperAlpha[j] = c)
    ELSE IF IsLowerCh(c) THEN 96 + (CHOOSE j \in 1..26 : LowerAlpha[j] = c)
    ELSE CASE c = " " -> 32
           [] c = "-" -> 45
           [] c = "." -> 46
           [] c = "_" -> 95

LowerCh(c) == IF IsUpperCh(c) THEN LowerAlpha[Ord(c) - 64] ELSE c
UpperCh(c) == IF IsLowerCh(c) THEN UpperAlpha[Ord(c) - 96] ELSE c

\* str.lower(), str.upper()
Lower(str) == [j \in 1..Len(str) |-> LowerCh(str[j])]
Upper(str) == [j \in 1..Len(str) |-> UpperCh(str[j])]

\* str.replace(ch, "")
Remove(str, ch) == SelectSeq(str, LAMBDA c : c # ch)

\* str.strip(): whitespace removed at both ends
Strip(str) ==
    LET P == {j \in 1..Len(str) : str[j] # " "}
    IN  IF P = {} THEN <<>> ELSE SubSeq(str, MinOf(P), MaxOf(P))

\* needle in hay
Contains(hay, needle) ==
    \E j \in 0..(Len(hay) - Len(needle)) :
        SubSeq(hay, j + 1, j + Len(needle)) = needle

\* str.rfind(ch, lo, hi): highest 0-based index in [lo, hi) holding ch, or -1
RFind(str, ch, lo, hi) ==
    LET P == {p \in lo..(hi - 1) : str[p + 1] = ch}
    IN  IF P = {} THEN -1 ELSE MaxOf(P)

\* str[lo:hi] with 0 <= lo, hi <= len(str)
Slice(str, lo, hi) == SubSeq(str, lo + 1, hi)

\* separator.join(parts)
RECURSIVE Join(_, _)
Join(sep, parts) ==
    IF parts = <<>> THEN <<>>
    ELSE IF Len(parts) = 1 THEN parts[1]
    ELSE parts[1] \o sep \o Join(sep, Tail(parts))

\* all sequences over S of length at most n
SeqsUpTo(S, n) == UNION {[1..k -> S] : k \in 0..n}

\* dict.get(key, default)
Get(r, key, default) == IF key \in DOMAIN r THEN r[key] ELSE default

\* ------------------------------------------------- canonical_label (133-155)
CANON_MAP == <<
    [k |-> <<"D", "I", "S", "E", "A", "S", "E">>, v |-> "Disease"],
    [k |-> <<"D", "I", "A", "G", "N", "O", "S", "I", "S">>, v |-> "Disease"],
    [k |-> <<"P", "R", "O", "B", "L", "E", "M">>, v |-> "Disease"],
    [k |-> <<"C", "O", "N", "D", "I", "T", "I", "O", "N">>, v |-> "Disease"],
    [k |-> <<"G", "E", "N", "E">>, v |-> "Gene"],
    [k |-> <<"G", "E", "N", "E", "_", "O", "R", "_", "G", "E", "N", "E", "_", "P", "R", "O", "D", "U", "C", "T">>, v |-> "Gene"],
    [k |-> <<"D", "N", "A">>, v |-> "Gene"],
    [k |-> <<"R", "N", "A">>, v |-> "Gene"],
    [k |-> <<"C", "H", "E", "M", "I", "C", "A", "L">>, v |-> "Drug"],
    [k |-> <<"D", "R", "U", "G">>, v |-> "Drug"],
    [k |-> <<"C", "H", "E", "M", "I", "C", "A", "L", "S", "U", "B", "S", "T", "A", "N", "C", "E">>, v |-> "Drug"] >>

Normalize(lbl) == Remove(Remove(Upper(lbl), "-"), "_")

canonical_label_exact(lbl) ==
    LET lab == Normalize(lbl)
        hits == {j \in 1..Len(CANON_MAP) : lab = CANON_MAP[j].k}
    IN  IF hits = {} THEN "Other" ELSE CANON_MAP[MinOf(hits)].v

canonical_label(lbl) ==
    LET lab == Normalize(lbl)
        hits == {j \in 1..Len(CANON_MAP) :
                    lab = CANON_MAP[j].k \/ Contains(lab, CANON_MAP[j].k)}
    IN  IF hits = {} THEN "Other" ELSE CANON_MAP[MinOf(hits)].v

\* --------------------------------------------------- find_keywords (158-188)
\* a pattern is a sequence of atoms: \b, or a set of characters (a literal
\* character or a class such as [sz])
B == [kind |-> "b", chars |-> {}]
Atom(S) == [kind |-> "set", chars |-> S]
Lit(str) == [j \in 1..Len(str) |-> Atom({str[j]})]

STUDY_TYPE_PATTERNS == <<
    <<B>> \o Lit(<<"r", "a", "n", "d", "o", "m", "i">>) \o <<Atom({"s", "z"})>> \o Lit(<<"e", "d", " ", "c", "o", "n", "t", "r", "o", "l", "l", "e", "d", " ", "t", "r", "i", "a", "l">>) \o <<B>>,
    <<B>> \o Lit(<<"c", "l", "i", "n", "i", "c", "a", "l", " ", "t", "r", "i", "a", "l">>) \o <<B>>,
    <<B>> \o Lit(<<"m", "e", "t", "a", "-", "a", "n", "a", "l", "y", "s", "i", "s">>) \o <<B>>,
    <<B>> \o Lit(<<"s", "y", "s", "t", "e", "m", "a", "t", "i", "c", " ", "r", "e", "v", "i", "e", "w">>) \o <<B>>,
    <<B>> \o Lit(<<"c", "o", "h", "o", "r", "t", " ", "s", "t", "u", "d", "y">>) \o <<B>>,
    <<B>> \o Lit(<<"c", "a", "s", "e">>) \o <<Atom({"-", " "})>> \o Lit(<<"c", "o", "n", "t", "r", "o", "l", " ", "s", "t", "u", "d", "y">>) \o <<B>>,
    <<B>> \o Lit(<<"c", "r", "o", "s", "s">>) \o <<Atom({"-", " "})>> \o Lit(<<"s", "e", "c", "t", "i", "o", "n", "a", "l", " ", "s", "t", "u", "d", "y">>) \o <<B>>,
    <<B>> \o Lit(<<"p", "r", "o", "s", "p", "e", "c", "t", "i", "v", "e", " ", "s", "t", "u", "d", "y">>) \o <<B>>,
    <<B>> \o Lit(<<"r", "e", "t", "r", "o", "s", "p", "e", "c", "t", "i", "v", "e", " ", "s", "t", "u", "d", "y">>) \o <<B>>,
    <<B>> \o Lit(<<"c", "a", "s", "e", " ", "s", "e", "r", "i", "e", "s">>) \o <<B>>,
    <<B>> \o Lit(<<"c", "a", "s", "e", " ", "r", "e", "p", "o", "r", "t">>) \o <<B>> >>

TRIAL_PHASE_PATTERNS == <<
    <<B>> \o Lit(<<"p", "h", "a", "s", "e", " ", "I">>) \o <<B>>,
    <<B>> \o Lit(<<"p", "h", "a", "s", "e", " ", "I", "I">>) \o <<B>>,
    <<B>> \o Lit(<<"p", "h", "a", "s", "e", " ", "I", "I", "I">>) \o <<B>>,
    <<B>> \o Lit(<<"p", "h", "a", "s", "e", " ", "I", "V">>) \o <<B>> >>

\* \w
IsDigit(c) == c \in {"0", "1", "2", "3", "4", "5", "6", "7", "8", "9"}
IsWordCh(c) == IsUpperCh(c) \/ IsLowerCh(c) \/ IsDigit(c) \/ c = "_"

\* \b at 0-based offset p: exactly one side is a word character
IsBoundary(str, p) ==
    LET before == p >= 1 /\ IsWordCh(str[p])
        after == p < Len(str) /\ IsWordCh(str[p + 1])
    IN  before # after

\* flags=re.IGNORECASE
CharMatches(c, chars) == \E x \in chars : LowerCh(x) = LowerCh(c)

\* the atoms pat[k..] match str from offset p on
RECURSIVE MatchAt(_, _, _, _)
MatchAt(pat, k, str, p) ==
    IF k > Len(pat) THEN TRUE
    ELSE IF pat[k].kind = "b"
         THEN IsBoundary(str, p) /\ MatchAt(pat, k + 1, str, p)
         ELSE /\ p < Len(str)
              /\ CharMatches(str[p + 1], pat[k].chars)
              /\ MatchAt(pat, k + 1, str, p + 1)

\* number of characters a match of pat consumes
Width(pat) == Cardinality({k \in 1..Len(pat) : pat[k].kind = "set"})

\* re.finditer(pat, str): left to right, non-overlapping; the set of group(0)
RECURSIVE FindIter(_, _, _)
FindIter(pat, str, p) ==
    IF p > Len(str) THEN {}
    ELSE IF MatchAt(pat, 1, str, p)
         THEN {Slice(str, p, p + Width(pat))} \cup FindIter(pat, str, p + Width(pat))
         ELSE FindIter(pat, str, p + 1)

\* a < b for Python strings: code point order, a proper prefix is smaller
LexLess(a, b) ==
    \/ Len(a) < Len(b) /\ SubSeq(b, 1, Len(a)) = a
    \/ \E j \in 1..Min(Len(a), Len(b)) :
          /\ SubSeq(a, 1, j - 1) = SubSeq(b, 1, j - 1)
          /\ Ord(a[j]) < Ord(b[j])

\* sorted(found)
RECURSIVE Sorted(_)
Sorted(S) ==
    IF S = {} THEN <<>>
    ELSE LET m == CHOOSE x \in S : \A y \in S \ {x} : LexLess(x, y)
         IN  <<m>> \o Sorted(S \ {m})

KwSubject_raw(t) == t

\* low = text.lower()
KwSubject(t) == Lower(t)

find_keywords(t, patterns) ==
    LET low == KwSubject(t)
        found == UNION {FindIter(patterns[j], low, 0) : j \in 1..Len(patterns)}
    IN  Sorted(found)

\* ---------------------------------------------------------------- state
VARIABLES
    text,          \* ner_document: argument text
    max_chars,     \* ner_document: argument max_chars
    pipe,          \* ner_document: the recognizer [vocab, fails]
    pc,            \* position inside ner_document
    s,             \* chunking loop: start offset
    chunks,        \* chunking loop: list of chunks
    cuts,          \* history: per chunk, the cut offset and which branch set it
    idx,           \* 1-based index of the chunk the for loop is at
    buckets,       \* accumulation lists per class
    calls,         \* history: the texts handed to pipe(...), in order
    spans,         \* history: every span the recognizer returned, in order
    result,        \* value returned by ner_document, None before that
    error,         \* exception propagating out of the current call, or None
    records,       \* analyze_records: argument records
    INFER_CHARS,   \* module constant read from the environment
    apc,           \* position inside analyze_records
    i,             \* analyze_records: 1-based index of the current record
    rows,          \* analyze_records: rows built so far
    ncalls,        \* history: recognizer invocations per record index
    returned,      \* value returned by analyze_records, None before that
    label,         \* canonical_label: argument
    group,         \* canonical_label: returned class, None before the call
    kw_text,       \* find_keywords: argument text
    kw_patterns,   \* find_keywords: argument patterns
    kw_found       \* find_keywords: returned list, None before the call

nerVars == <<text, max_chars, pipe, pc, s, chunks, cuts, idx, buckets, calls,
             spans, result, error>>
recVars == <<records, INFER_CHARS, apc, i, rows, ncalls, returned>>
labVars == <<label, group>>
kwVars == <<kw_text, kw_patterns, kw_found>>
vars == <<nerVars, recVars, labVars, kwVars>>

Classes == <<"Disease", "Gene", "Drug">>
EmptyBuckets == [Disease |-> <<>>, Gene |-> <<>>, Drug |-> <<>>]

\* ----------------------------------------------- ner_document (194-240)
WindowEnd_off(t, s0, m) == Min(s0 + m + 1, Len(t))

\* e = min(s + max_chars, len(text))
WindowEnd(t, s0, m) == Min(s0 + m, Len(t))

\* cut = text.rfind(".", s, e); if cut == -1 or cut <= s: cut = e
IsSentenceCut(t, s0, e) ==
    LET c == RFind(t, ".", s0, e) IN ~(c = -1 \/ c <= s0)

CutPoint_noguard(t, s0, e) ==
    IF RFind(t, ".", s0, e) = -1 THEN e ELSE RFind(t, ".", s0, e)

CutPoint(t, s0, e) ==
    IF IsSentenceCut(t, s0, e) THEN RFind(t, ".", s0, e) ELSE e

\* s = cut + 1
NextStart(cut) == cut + 1

\* word = r.get("word", "").strip()
SpanWord(r) == Strip(Get(r, "word", <<>>))

\* label = r.get("entity_group", r.get("entity", "")); canonical_label(label)
SpanGroup(r) == canonical_label(Get(r, "entity_group", Get(r, "entity", <<>>)))

\* if group in {"Disease", "Gene", "Drug"} and word
Survives(r) == SpanGroup(r) \in {"Disease", "Gene", "Drug"} /\ SpanWord(r) # <<>>

\* for r in outputs: ... buckets[group].append(word)
RECURSIVE Accumulate(_, _)
Accumulate(b, outputs) ==
    IF outputs = <<>> THEN b
    ELSE LET r == Head(outputs)
             b2 == IF Survives(r)
                   THEN [b EXCEPT ![SpanGroup(r)] = Append(@, SpanWord(r))]
                   ELSE b
         IN  Accumulate(b2, Tail(outputs))

SeenKey_cased(w) == w

\* wl = w.lower()
SeenKey(w) == Lower(w)

\* the dedup loop over one bucket: seen set, ordered list
RECURSIVE DedupFrom(_, _, _)
DedupFrom(lst, seen, ordered) ==
    IF lst = <<>> THEN ordered
    ELSE LET w == Head(lst)
             wl == SeenKey(w)
         IN  IF wl \in seen
             THEN DedupFrom(Tail(lst), seen, ordered)
             ELSE DedupFrom(Tail(lst), seen \cup {wl}, Append(ordered, w))

Dedup(lst) == DedupFrom(lst, {}, <<>>)

\* if not text: return {"Disease": [], "Gene": [], "Drug": []}
NerEnter ==
    /\ pc = "start"
    /\ IF text = <<>>
       THEN /\ result' = Some(EmptyBuckets)
            /\ pc' = "done"
       ELSE /\ result' = result
            /\ pc' = "chunk"
    /\ UNCHANGED <<text, max_chars, pipe, s, chunks, cuts, idx, buckets,
                   calls, spans, error>>
    /\ UNCHANGED <<recVars, labVars, kwVars>>

\* one iteration of: while s < len(text)
ChunkStep ==
    /\ pc = "chunk"
    /\ s < Len(text)
    /\ LET e == WindowEnd(text, s, max_chars)
           cut == CutPoint(text, s, e)
       IN  /\ chunks' = Append(chunks, Slice(text, s, cut))
           /\ cuts' = Append(cuts, [from |-> s, at |-> cut,
                                    sentence |-> IsSentenceCut(text, s, e)])
           /\ s' = NextStart(cut)
    /\ UNCHANGED <<text, max_chars, pipe, pc, idx, buckets, calls, spans,
                   result, error>>
    /\ UNCHANGED <<recVars, labVars, kwVars>>

\* the while condition fails; buckets = defaultdict(list)
ChunkExit ==
    /\ pc = "chunk"
    /\ ~(s < Len(text))
    /\ pc' = "ner"
    /\ idx' = 1
    /\ buckets' = EmptyBuckets
    /\ UNCHANGED <<text, max_chars, pipe, s, chunks, cuts, calls, spans,
                   result, error>>
    /\ UNCHANGED <<recVars, labVars, kwVars>>

IsBlank_empty(ch) == ch = <<>>

\* not ch.strip()
IsBlank(ch) == Strip(ch) = <<>>

\* for ch in chunks: if not ch.strip(): continue
NerSkip ==
    /\ pc = "ner"
    /\ idx <= Len(chunks)
    /\ IsBlank(chunks[idx])
    /\ idx' = idx + 1
    /\ UNCHANGED <<text, max_chars, pipe, pc, s, chunks, cuts, buckets, calls,
                   spans, result, error>>
    /\ UNCHANGED <<recVars, labVars, kwVars>>

\* outputs = pipe(ch); for r in outputs: ...
NerCall ==
    /\ pc = "ner"
    /\ idx <= Len(chunks)
    /\ ~IsBlank(chunks[idx])
    /\ \E outputs \in SeqsUpTo(pipe.vocab, MaxSpans - Len(spans)) :
          /\ buckets' = Accumulate(buckets, outputs)
          /\ spans' = spans \o outputs
    /\ calls' = Append(calls, chunks[idx])
    /\ idx' = idx + 1
    /\ UNCHANGED <<text, max_chars, pipe, pc, s, chunks, cuts, result, error>>
    /\ UNCHANGED <<recVars, labVars, kwVars>>

NerCallFails_swallow ==
    /\ pc = "ner"
    /\ idx <= Len(chunks)
    /\ ~IsBlank(chunks[idx])
    /\ pipe.fails
    /\ calls' = Append(calls, chunks[idx])
    /\ error' = Some([type |-> "RecognizerFailure", pmid |-> None])
    /\ idx' = idx + 1
    /\ UNCHANGED <<text, max_chars, pipe, pc, s, chunks, cuts, buckets, spans,
                   result>>
    /\ UNCHANGED <<recVars, labVars, kwVars>>

\* pipe(ch) raises: nothing in ner_document catches it
NerCallFails ==
    /\ pc = "ner"
    /\ idx <= Len(chunks)
    /\ ~IsBlank(chunks[idx])
    /\ pipe.fails
    /\ calls' = Append(calls, chunks[idx])
    /\ error' = Some([type |-> "RecognizerFailure", pmid |-> None])
    /\ pc' = "raised"
    /\ UNCHANGED <<text, max_chars, pipe, s, chunks, cuts, idx, buckets, spans,
                   result>>
    /\ UNCHANGED <<recVars, labVars, kwVars>>

\* dedup each bucket, setdefault the three keys, return buckets
NerReturn ==
    /\ pc = "ner"
    /\ idx > Len(chunks)
    /\ result' = Some([k \in {"Disease", "Gene", "Drug"} |-> Dedup(buckets[k])])
    /\ pc' = "done"
    /\ UNCHANGED <<text, max_chars, pipe, s, chunks, cuts, idx, buckets, calls,
                   spans, error>>
    /\ UNCHANGED <<recVars, labVars, kwVars>>


\* ------------------------------------------------------ input domains
TextAlphabet == {"a", ".", " "}

Vocab == {
    [word |-> <<"G", "l", "a", "u", "c", "o", "m", "a">>, entity_group |-> <<"D", "I", "S", "E", "A", "S", "E">>],
    [word |-> <<"g", "l", "a", "u", "c", "o", "m", "a">>, entity_group |-> <<"D", "i", "s", "e", "a", "s", "e">>],
    [word |-> <<" ", "U", "v", "e", "i", "t", "i", "s">>, entity |-> <<"B", "-", "D", "I", "S", "E", "A", "S", "E">>],
    [word |-> <<"G", "L", "A", "U", "C", "O", "M", "A">>, entity |-> <<"I", "-", "C", "H", "E", "M", "I", "C", "A", "L">>],
    [word |-> <<"U", "v", "e", "i", "t", "i", "s">>, entity_group |-> <<"F", "O", "O">>],
    [entity_group |-> <<"D", "N", "A">>] }

QuietPipe == [vocab |-> {}, fails |-> TRUE]
RichPipe == [vocab |-> Vocab, fails |-> TRUE]

DocTexts == { <<"a">>, <<"a", ".", " ", "a">>, <<"a", "a", "a", "a", "a">> }

NerLocalsInit ==
    /\ s = 0
    /\ chunks = <<>>
    /\ cuts = <<>>
    /\ idx = 0
    /\ buckets = EmptyBuckets
    /\ calls = <<>>
    /\ spans = <<>>
    /\ result = None
    /\ error = None

RecIdle ==
    /\ records = <<>>
    /\ INFER_CHARS = 4000
    /\ apc = "idle"
    /\ i = 0
    /\ rows = <<>>
    /\ ncalls = <<>>
    /\ returned = None

NerIdle ==
    /\ text = <<>>
    /\ max_chars = 4000
    /\ pipe = QuietPipe
    /\ pc = "idle"
    /\ NerLocalsInit

LabIdle == label = <<>> /\ group = None
KwIdle == kw_text = <<>> /\ kw_patterns = <<>> /\ kw_found = None

\* a direct call ner_document(pipe, text, max_chars)
Init ==
    /\ \/ /\ text \in SeqsUpTo(TextAlphabet, MaxLen)
          /\ pipe = QuietPipe
       \/ /\ text \in DocTexts
          /\ pipe = RichPipe
    /\ max_chars \in 1..MaxChars
    /\ pc = "start"
    /\ NerLocalsInit
    /\ RecIdle /\ LabIdle /\ KwIdle

Next ==
    \/ NerEnter
    \/ ChunkStep
    \/ ChunkExit
    \/ NerSkip
    \/ NerCall
    \/ NerCallFails
    \/ NerReturn

Spec == Init /\ [][Next]_vars
\* the interpreter keeps executing the straight-line code and the while loop
ChunkLoop == NerEnter \/ ChunkStep \/ ChunkExit
FairSpec == Spec /\ WF_vars(ChunkLoop)

\* ------------------------------------------ analyze_records (86-107, 246-280)
\* abstract values: a string, a list of strings, or a list holding a
\* non-string item
Str(v) == [kind |-> "str", v |-> v]
List(v) == [kind |-> "list", v |-> v]
BadList == [kind |-> "badlist", v |-> <<>>]

\* join_abstract raises TypeError when " ".join meets a non-string item
JoinRaises(r) == Get(r, "AB", Str(<<>>)).kind = "badlist"

\* join_abstract(record), for a record on which it does not raise
join_abstract(r) ==
    LET ab == Get(r, "AB", Str(<<>>))
    IN  IF ab.kind = "list" THEN Join(<<" ">>, ab.v) ELSE ab.v

\* build_context(record), for a record on which join_abstract does not raise
build_context(r) ==
    LET title == Get(r, "TI", <<>>)
        abstract == join_abstract(r)
        p1 == IF Strip(title) # <<>> THEN <<Strip(title)>> ELSE <<>>
        p2 == IF Strip(abstract) # <<>> THEN <<Strip(abstract)>> ELSE <<>>
    IN  Join(<<".", " ">>, p1 \o p2)

\* m = re.match(r"(\d{4})", dp); year = m.group(1) if m else ""
YearOf(r) ==
    LET dp == Get(r, "DP", <<>>)
    IN  IF Len(dp) >= 4 /\ \A j \in 1..4 : IsDigit(dp[j])
        THEN SubSeq(dp, 1, 4) ELSE <<>>

\* journal = r.get("JT", "") or r.get("TA", "") or ""
JournalOf(r) ==
    IF Get(r, "JT", <<>>) # <<>> THEN r.JT ELSE Get(r, "TA", <<>>)

\* context = build_context(r) succeeds; ner_document(pipe, context, INFER_CHARS)
\* is entered
AnalyzeBegin ==
    /\ apc = "loop"
    /\ i <= Len(records)
    /\ ~JoinRaises(records[i])
    /\ text' = build_context(records[i])
    /\ max_chars' = INFER_CHARS
    /\ pc' = "start"
    /\ s' = 0
    /\ chunks' = <<>>
    /\ cuts' = <<>>
    /\ idx' = 0
    /\ buckets' = EmptyBuckets
    /\ calls' = <<>>
    /\ spans' = <<>>
    /\ result' = None
    /\ apc' = "in_ner"
    /\ UNCHANGED <<pipe, error, records, INFER_CHARS, i, rows, ncalls, returned>>
    /\ UNCHANGED <<labVars, kwVars>>

\* build_context(r) raises; analyze_records has no handler
AnalyzeMalformed ==
    /\ apc = "loop"
    /\ i <= Len(records)
    /\ JoinRaises(records[i])
    /\ error' = Some([type |-> "TypeError", pmid |-> None])
    /\ apc' = "raised"
    /\ UNCHANGED <<text, max_chars, pipe, pc, s, chunks, cuts, idx, buckets,
                   calls, spans, result, records, INFER_CHARS, i, rows, ncalls,
                   returned>>
    /\ UNCHANGED <<labVars, kwVars>>

\* ner_document raised; analyze_records has no handler
AnalyzeNerRaised ==
    /\ apc = "in_ner"
    /\ pc = "raised"
    /\ apc' = "raised"
    /\ pc' = "idle"
    /\ UNCHANGED <<text, max_chars, pipe, s, chunks, cuts, idx, buckets, calls,
                   spans, result, error, records, INFER_CHARS, i, rows, ncalls,
                   returned>>
    /\ UNCHANGED <<labVars, kwVars>>

\* ner_document returned: the keyword lists, rows.append({...})
AnalyzeRow ==
    /\ apc = "in_ner"
    /\ pc = "done"
    /\ LET r == records[i]
           ents == Val(result)
       IN  rows' = Append(rows, [
               pmid |-> Get(r, "PMID", <<>>),
               title |-> Get(r, "TI", <<>>),
               journal |-> JournalOf(r),
               year |-> YearOf(r),
               diseases |-> ents["Disease"],
               genes |-> ents["Gene"],
               drugs |-> ents["Drug"],
               study_types |-> find_keywords(text, STUDY_TYPE_PATTERNS),
               trial_phases |-> find_keywords(text, TRIAL_PHASE_PATTERNS),
               abstract |-> join_abstract(r)])
    /\ ncalls' = Append(ncalls, Len(calls))
    /\ i' = i + 1
    /\ apc' = "loop"
    /\ pc' = "idle"
    /\ UNCHANGED <<text, max_chars, pipe, s, chunks, cuts, idx, buckets, calls,
                   spans, result, error, records, INFER_CHARS, returned>>
    /\ UNCHANGED <<labVars, kwVars>>

\* return rows
AnalyzeReturn ==
    /\ apc = "loop"
    /\ i > Len(records)
    /\ returned' = Some(rows)
    /\ apc' = "done"
    /\ UNCHANGED <<nerVars, records, INFER_CHARS, i, rows, ncalls>>
    /\ UNCHANGED <<labVars, kwVars>>

RecordPool == {
    [PMID |-> "101", TI |-> <<" ">>, AB |-> Str(<<>>), DP |-> <<"J", "a", "n", " ", "2", "0", "2", "0">>],
    [PMID |-> "102", AB |-> List(<< <<" ">>, <<>> >>), TA |-> <<"J">>],
    [PMID |-> "103", TI |-> <<"a">>, AB |-> Str(<<" ", ".", " ", "a", " ", "p", "h", "a", "s", "e", " ", "I", " ">>),
        DP |-> <<"2", "0", "2", "1", " ", "J", "a", "n", "-", "F", "e", "b">>, JT |-> <<"J", "o">>, TA |-> <<"J">>],
    [PMID |-> "104", TI |-> <<"C", "a", "s", "e", " ", "R", "e", "p", "o", "r", "t", ".">>, AB |-> List(<< <<"a", ".">>, <<"a">> >>)],
    [PMID |-> "105", TI |-> <<"a">>, AB |-> BadList] }

OnePipe == [vocab |-> {[word |-> <<"G", "l", "a", "u", "c", "o", "m", "a">>, entity_group |-> <<"D", "I", "S", "E", "A", "S", "E">>]},
            fails |-> TRUE]

InitAnalyze ==
    /\ records \in SeqsUpTo(RecordPool, MaxRecords)
    /\ INFER_CHARS \in (1..MaxChars) \cup {4000}
    /\ apc = "loop"
    /\ i = 1
    /\ rows = <<>>
    /\ ncalls = <<>>
    /\ returned = None
    /\ text = <<>>
    /\ max_chars = INFER_CHARS
    /\ pipe = OnePipe
    /\ pc = "idle"
    /\ NerLocalsInit
    /\ LabIdle /\ KwIdle

\* the statements of ner_document run between AnalyzeBegin and AnalyzeRow:
\* pc is "idle" outside the call
NextAnalyze ==
    \/ AnalyzeBegin
    \/ AnalyzeMalformed
    \/ NerEnter
    \/ ChunkStep
    \/ ChunkExit
    \/ NerSkip
    \/ NerCall
    \/ NerCallFails
    \/ NerReturn
    \/ AnalyzeNerRaised
    \/ AnalyzeRow
    \/ AnalyzeReturn

SpecAnalyze == InitAnalyze /\ [][NextAnalyze]_vars

\* -------------------------------------------- a call canonical_label(label)
Capitalize(str) == IF str = <<>> THEN str ELSE <<str[1]>> \o Lower(Tail(str))

LabelAlphabet == {"D", "N", "A", "r", "-", "_"}
LabelPrefixes == {<<>>, <<"B", "-">>, <<"I", "_">>}

LabelInputs ==
    SeqsUpTo(LabelAlphabet, MaxLabelLen)
    \cup {pre \o CANON_MAP[j].k : pre \in LabelPrefixes, j \in 1..Len(CANON_MAP)}
    \cup {pre \o Lower(CANON_MAP[j].k) : pre \in LabelPrefixes, j \in 1..Len(CANON_MAP)}
    \cup {pre \o Capitalize(CANON_MAP[j].k) : pre \in LabelPrefixes, j \in 1..Len(CANON_MAP)}
    \cup {<<"F", "O", "O">>, <<"D", "I", "S", "E", "A", "S", "E", "O", "R", "S", "Y", "N", "D", "R", "O", "M", "E">>, <<"G", "e", "n", "e", "_", "O", "r", "_", "G", "e", "n", "e", "_", "P", "r", "o", "d", "u", "c", "t">>, <<"O">>,
          <<"C", "H", "E", "M", "I", "C", "A", "L", "-", "S", "U", "B", "S", "T", "A", "N", "C", "E">>, <<"D", "I", "S", "-", "E", "A", "S", "E">>, <<"P", "R", "O", "T", "E", "I", "N">>}

InitLabel ==
    /\ label \in LabelInputs
    /\ group = None
    /\ NerIdle /\ RecIdle /\ KwIdle

Canonicalize ==
    /\ group = None
    /\ group' = Some(canonical_label(label))
    /\ UNCHANGED <<label, nerVars, recVars, kwVars>>

NextLabel == Canonicalize

SpecLabel == InitLabel /\ [][NextLabel]_vars

\* ------------------------------------- a call find_keywords(text, patterns)
KwExample == <<"T", "h", "i", "s", " ", "R", "a", "n", "d", "o", "m", "i", "z", "e", "d", " ", "C", "o", "n", "t", "r", "o", "l", "l", "e", "d", " ", "T", "r", "i", "a", "l", ".", ".", ".", " ", "w", "a", "s", " ", "a", " ", "r", "a", "n", "d", "o", "m", "i", "z", "e", "d", " ", "c", "o", "n", "t", "r", "o", "l", "l", "e", "d", " ", "t", "r", "i", "a", "l">>

KwFragments == {
    <<"R", "a", "n", "d", "o", "m", "i", "z", "e", "d", " ", "C", "o", "n", "t", "r", "o", "l", "l", "e", "d", " ", "T", "r", "i", "a", "l">>, <<" ", "r", "a", "n", "d", "o", "m", "i", "s", "e", "d", " ", "c", "o", "n", "t", "r", "o", "l", "l", "e", "d", " ", "t", "r", "i", "a", "l">>,
    <<"c", "l", "i", "n", "i", "c", "a", "l", " ", "t", "r", "i", "a", "l">>, <<"C", "a", "s", "e", "-", "C", "o", "n", "t", "r", "o", "l", " ", "S", "t", "u", "d", "y", " ">>, <<"c", "a", "s", "e", " ", "c", "o", "n", "t", "r", "o", "l", " ", "s", "t", "u", "d", "y">>,
    <<"s">>, <<" ">>, <<"P", "h", "a", "s", "e", " ", "I", "I">>, <<"p", "h", "a", "s", "e", " ", "I", "I", "I">>, <<"a", " ", "p", "h", "a", "s", "e", " ", "I">>, <<"_", "m", "e", "t", "a", "-", "a", "n", "a", "l", "y", "s", "i", "s", ".">> }

KwTexts ==
    {KwExample} \cup
    UNION {{Join(<<>>, f) : f \in [1..n -> KwFragments]} : n \in 0..MaxFrags}

InitKw ==
    /\ kw_text \in KwTexts
    /\ kw_patterns \in {STUDY_TYPE_PATTERNS, TRIAL_PHASE_PATTERNS}
    /\ kw_found = None
    /\ NerIdle /\ RecIdle /\ LabIdle

FindKeywords ==
    /\ kw_found = None
    /\ kw_found' = Some(find_keywords(kw_text, kw_patterns))
    /\ UNCHANGED <<kw_text, kw_patterns, nerVars, recVars, labVars>>

NextKw == FindKeywords

SpecKw == InitKw /\ [][NextKw]_vars

\* ------------------------------------------------------------ properties
ChunkingOver == pc \in {"ner", "done", "raised"}

\* chunks joined in order, with one "." put back after every chunk that
\* ended at a sentence cut and is followed by another chunk
RECURSIVE Reassemble(_, _)
Reassemble(cs, ks) ==
    IF cs = <<>> THEN <<>>
    ELSE IF Len(cs) = 1 THEN cs[1]
    ELSE cs[1] \o (IF ks[1].sentence THEN <<".">> ELSE <<>>)
               \o Reassemble(Tail(cs), Tail(ks))

\* C1 (as claimed): once the chunking loop has ended, the chunks joined in
\* order, with exactly one "." reinserted between consecutive chunks
\* separated by a sentence cut and nothing at a hard cut, equal the text.
C1_ChunkCoverage == ChunkingOver => Reassemble(chunks, cuts) = text

\* C2: every chunk, and so every text handed to the recognizer, has at most
\* max_chars characters.
C2_ChunkSizeBound ==
    /\ \A j \in DOMAIN chunks : Len(chunks[j]) <= max_chars
    /\ \A j \in DOMAIN calls : Len(calls[j]) <= max_chars

C2_Witness ==
    /\ pc = "done"
    /\ Len(text) > max_chars
    /\ Len(chunks) >= 2
    /\ \E j \in DOMAIN calls : Len(calls[j]) = max_chars

\* the surviving surface strings of class k, in the order the recognizer
\* returned them over the successive calls
Surviving(k) ==
    LET keep == SelectSeq(spans, LAMBDA r : Survives(r) /\ SpanGroup(r) = k)
    IN  [j \in 1..Len(keep) |-> SpanWord(keep[j])]

FirstAt(W, w) == MinOf({j \in 1..Len(W) : Lower(W[j]) = Lower(w)})

ExampleSpans == <<
    [word |-> <<"G", "l", "a", "u", "c", "o", "m", "a">>, entity_group |-> <<"D", "I", "S", "E", "A", "S", "E">>],
    [word |-> <<"g", "l", "a", "u", "c", "o", "m", "a">>, entity_group |-> <<"D", "i", "s", "e", "a", "s", "e">>],
    [word |-> <<" ", "U", "v", "e", "i", "t", "i", "s">>, entity |-> <<"B", "-", "D", "I", "S", "E", "A", "S", "E">>] >>

\* C3: each returned bucket has no two entries equal ignoring case, has an
\* entry for every distinct (ignoring case) surviving string of its class,
\* lists them by first occurrence over the calls made in chunk order, each in
\* the casing of its first occurrence; Glaucoma, glaucoma, Uveitis (Disease)
\* give exactly [Glaucoma, Uveitis].
C3_DedupOrder ==
    pc = "done" =>
      /\ calls = SelectSeq(chunks, LAMBDA ch : Strip(ch) # <<>>)
      /\ \A k \in {"Disease", "Gene", "Drug"} :
           LET W == Surviving(k)
               R == Val(result)[k]
           IN  /\ \A a, b \in 1..Len(R) : a < b => Lower(R[a]) # Lower(R[b])
               /\ {Lower(R[a]) : a \in 1..Len(R)} = {Lower(W[j]) : j \in 1..Len(W)}
               /\ \A a \in 1..Len(R) : R[a] = W[FirstAt(W, R[a])]
               /\ \A a, b \in 1..Len(R) :
                     a < b => FirstAt(W, R[a]) < FirstAt(W, R[b])
      /\ spans = ExampleSpans =>
           Val(result).Disease = << <<"G", "l", "a", "u", "c", "o", "m", "a">>, <<"U", "v", "e", "i", "t", "i", "s">> >>

C3_Witness ==
    /\ pc = "done"
    /\ spans = ExampleSpans
    /\ Len(calls) >= 2
    /\ result = Some([Disease |-> << <<"G", "l", "a", "u", "c", "o", "m", "a">>, <<"U", "v", "e", "i", "t", "i", "s">> >>,
                      Gene |-> <<>>, Drug |-> <<>>])

\* C4: once the recognizer has failed on a chunk the call has failed as a
\* whole: the exception is propagating and no buckets are returned.
C4_AllOrNothing == error # None => (pc = "raised" /\ result = None)

C4_Witness ==
    /\ pc = "raised"
    /\ error # None
    /\ Len(chunks) = 3
    /\ Len(calls) = 2
    /\ buckets # EmptyBuckets
    /\ result = None

\* C7 (as claimed): a non-empty text shorter than max_chars gives exactly one
\* chunk, the whole text.
C7_ShortTextOneChunk ==
    (ChunkingOver /\ text # <<>> /\ Len(text) < max_chars) => chunks = <<text>>

\* C10: every iteration of the chunking loop puts the cut strictly after the
\* start offset and moves the start offset strictly forward, and the loop
\* ends with the start offset at or past the end of the text.
C10_ChunkingTerminates ==
    /\ [][ChunkStep => (cuts'[Len(cuts')].at > s /\ s' > s)]_vars
    /\ <>(pc \notin {"start", "chunk"} /\ s >= Len(text))

C10_Witness ==
    /\ pc = "ner"
    /\ Len(chunks) >= 3
    /\ s >= Len(text)
    /\ \E j \in DOMAIN cuts : cuts[j].sentence
    /\ \E j \in DOMAIN cuts : ~cuts[j].sentence

TableKeys == {CANON_MAP[j].k : j \in 1..Len(CANON_MAP)}

\* the label upper-cased, with every "-" and "_" dropped
Bare(lbl) == SelectSeq(Upper(lbl), LAMBDA c : c \notin {"-", "_"})

\* C8: canonical_label returns one of Disease, Gene, Drug, Other; Other
\* exactly when the upper-cased label without "-" and "_" contains no table
\* key, otherwise the class of a key it equals or contains; every table key
\* maps to its own class; B-DISEASE, Disease, DISEASE give Disease; FOO and
\* the empty label give Other.
C8_Canonical ==
    group # None =>
      LET g == Val(group)
          held == {j \in 1..Len(CANON_MAP) :
                      \E p \in 0..(Len(Bare(label)) - Len(CANON_MAP[j].k)) :
                      SubSeq(Bare(label), p + 1, p + Len(CANON_MAP[j].k)) = CANON_MAP[j].k}
      IN  /\ g \in {"Disease", "Gene", "Drug", "Other"}
          /\ (g = "Other") <=> (held = {})
          /\ g # "Other" => \E j \in held : CANON_MAP[j].v = g
          /\ \A j \in 1..Len(CANON_MAP) : label = CANON_MAP[j].k => g = CANON_MAP[j].v
          /\ label \in {<<"B", "-", "D", "I", "S", "E", "A", "S", "E">>, <<"D", "i", "s", "e", "a", "s", "e">>, <<"D", "I", "S", "E", "A", "S", "E">>} => g = "Disease"
          /\ label \in {<<"F", "O", "O">>, <<>>} => g = "Other"

C8_Witness ==
    /\ group = Some("Drug")
    /\ label = <<"C", "H", "E", "M", "I", "C", "A", "L", "S", "U", "B", "S", "T", "A", "N", "C", "E">>

\* C9: find_keywords returns the matched phrases, lower-cased, each once, in
\* strictly increasing lexicographic order; a phrase is listed exactly when
\* some pattern matches the text there ignoring case; the text with both
\* casings of "randomized controlled trial" gives that one entry.
C9_Keywords ==
    kw_found # None =>
      LET R == Val(kw_found)
          hits == {pj \in (0..Len(kw_text)) \X (1..Len(kw_patterns)) :
                      MatchAt(kw_patterns[pj[2]], 1, kw_text, pj[1])}
      IN  /\ \A a, b \in 1..Len(R) : a < b => LexLess(R[a], R[b])
          /\ \A a, b \in 1..Len(R) : a < b => Lower(R[a]) # Lower(R[b])
          /\ {R[a] : a \in 1..Len(R)} =
                {Lower(Slice(kw_text, pj[1], pj[1] + Width(kw_patterns[pj[2]]))) : pj \in hits}
          /\ (kw_text = KwExample /\ kw_patterns = STUDY_TYPE_PATTERNS) =>
                R = << <<"r", "a", "n", "d", "o", "m", "i", "z", "e", "d", " ", "c", "o", "n", "t", "r", "o", "l", "l", "e", "d", " ", "t", "r", "i", "a", "l">> >>

C9_Witness ==
    /\ kw_text = KwExample
    /\ kw_patterns = STUDY_TYPE_PATTERNS
    /\ kw_found = Some(<< <<"r", "a", "n", "d", "o", "m", "i", "z", "e", "d", " ", "c", "o", "n", "t", "r", "o", "l", "l", "e", "d", " ", "t", "r", "i", "a", "l">> >>)

TitleOf(r) == Get(r, "TI", <<>>)
IsSpace(str) == \A j \in 1..Len(str) : str[j] = " "

\* title and abstract both empty or whitespace-only
BlankRecord(r) ==
    /\ ~JoinRaises(r)
    /\ IsSpace(TitleOf(r))
    /\ IsSpace(join_abstract(r))

\* C5 (as claimed): when entity aggregation or context building fails for a
\* record, analyze_records surfaces the error with that record's identifier
\* attached.
C5_ErrorCarriesRecordId ==
    apc = "raised" =>
      (error # None /\ Val(error).pmid = Some(records[i].PMID))

\* C6: a record whose title and abstract are both blank gets empty Disease,
\* Gene and Drug buckets and empty keyword lists with no recognizer
\* invocation, and no text ever handed to the recognizer is empty or
\* whitespace-only.
C6_EmptyInput ==
    /\ \A j \in 1..Len(rows) :
          BlankRecord(records[j]) =>
            /\ rows[j].diseases = <<>> /\ rows[j].genes = <<>> /\ rows[j].drugs = <<>>
            /\ rows[j].study_types = <<>> /\ rows[j].trial_phases = <<>>
            /\ ncalls[j] = 0
    /\ \A j \in 1..Len(calls) : ~IsSpace(calls[j])

C6_Witness ==
    /\ Len(rows) = 1
    /\ BlankRecord(records[1])
    /\ rows[1].diseases = <<>>
    /\ rows[1].study_types = <<>>
    /\ ncalls[1] = 0
    /\ pc = "done"
    /\ \E j \in 1..Len(chunks) : IsSpace(chunks[j])
    /\ Len(calls) >= 1
    /\ Val(result).Disease # <<>>

====